---------------------------- MODULE Spec2Model ----------------------------
(***************************************************************************)
(* A model of src/main.py, the Member QA Service: the process-wide index   *)
(* slot _CACHE, the request handlers /ask and /refresh that run on worker  *)
(* threads, and the retrieval-and-answer pipeline of answer_question.      *)
(*                                                                         *)
(* Text is modelled at character level: a Python str is a sequence of      *)
(* one-character strings, so that str.lower(), the `in` substring test,    *)
(* str.split and the regular expressions of the source are computed as     *)
(* the source computes them.  Python's None is the empty tuple <<>> and a  *)
(* present optional value x is <<x>>.  Corpus indices are 0-based as in    *)
(* the source; the message with index i is msgs[i + 1].                    *)
(***************************************************************************)
EXTENDS Integers, Sequences, FiniteSets, TLC

\* The state of the program and of its environment.
VARIABLES CACHE, started, argsortKind, req, probe

vars == <<CACHE, started, argsortKind, req, probe>>

(***************************************************************************)
(* Generic helpers                                                         *)
(***************************************************************************)
None == <<>>

Some(x) == <<x>>

MinOf(S) == CHOOSE x \in S : \A y \in S : x <= y

MaxOf(S) == CHOOSE x \in S : \A y \in S : y <= x

Range(s) == {s[i] : i \in 1..Len(s)}

RECURSIVE SubseqFrom(_, _, _, _)
SubseqFrom(s, i, t, j) == IF i > Len(s) THEN TRUE ELSE IF j > Len(t) THEN FALSE ELSE IF s[i] = t[j] THEN SubseqFrom(s, i + 1, t, j + 1) ELSE SubseqFrom(s, i, t, j + 1)

\* s is a subsequence of t: the elements of s occur in t in the same relative order
IsSubsequence(s, t) == SubseqFrom(s, 1, t, 1)

\* the sequences without repeats of at most n elements of S
\* the function f as an explicit table, so that its values are computed once
Tabulated(f) == f @@ <<>>

InjectiveSeqs(S, n) == UNION {{f \in [1..k -> S] : \A i \in 1..k, j \in 1..k : i # j => f[i] # f[j]} : k \in 0..n}

(***************************************************************************)
(* Characters and str methods                                              *)
(***************************************************************************)
UpperSeq == <<"A","B","C","D","E","F","G","H","I","J","K","L","M","N","O","P","Q","R","S","T","U","V","W","X","Y","Z">>

LowerSeq == <<"a","b","c","d","e","f","g","h","i","j","k","l","m","n","o","p","q","r","s","t","u","v","w","x","y","z">>

DigitSeq == <<"0","1","2","3","4","5","6","7","8","9">>

UpperSet == Range(UpperSeq)

LowerSet == Range(LowerSeq)

DigitSet == Range(DigitSeq)

WordSet == UpperSet \cup LowerSet \cup DigitSet \cup {"_"}

IsUpper(c) == c \in UpperSet

IsLower(c) == c \in LowerSet

IsDigit(c) == c \in DigitSet

\* \w of the re module on ASCII text
IsWordCh(c) == c \in WordSet

\* \s of the re module
IsSpace(c) == c \in {" ", "\t", "\n"}

LowerMap == [c \in UpperSet |-> LowerSeq[CHOOSE i \in 1..26 : UpperSeq[i] = c]]

LowerCh(c) == IF IsUpper(c) THEN LowerMap[c] ELSE c

\* str.lower()
str_lower(s) == [i \in 1..Len(s) |-> LowerCh(s[i])]

\* the character at 1-based position i, "" outside the string
At(s, i) == IF i \in 1..Len(s) THEN s[i] ELSE ""

\* the pattern \b matches between position i-1 and i
WB(s, i) == IsWordCh(At(s, i - 1)) # IsWordCh(At(s, i))

\* the literal p occurs in s starting at position i
StartsAt(s, p, i) == i >= 1 /\ i + Len(p) - 1 <= Len(s) /\ SubSeq(s, i, i + Len(p) - 1) = p

\* Python's `p in s` on strings
Contains(s, p) == \E i \in 1..(Len(s) - Len(p) + 1) : StartsAt(s, p, i)

\* re.search(r"\bp\b", s) for a literal p
SearchWord(s, p) == \E i \in 1..Len(s) : WB(s, i) /\ StartsAt(s, p, i) /\ WB(s, i + Len(p))

\* last position of the maximal run of \w starting at i (i - 1 when there is none)
WordRunEnd(s, i) == CHOOSE j \in (i - 1)..Len(s) : (\A k \in i..j : IsWordCh(s[k])) /\ ~IsWordCh(At(s, j + 1))

LowerRunEnd(s, i) == CHOOSE j \in (i - 1)..Len(s) : (\A k \in i..j : IsLower(s[k])) /\ ~IsLower(At(s, j + 1))

DigitRunEnd(s, i) == CHOOSE j \in (i - 1)..Len(s) : (\A k \in i..j : IsDigit(s[k])) /\ ~IsDigit(At(s, j + 1))

SpaceRunEnd(s, i) == CHOOSE j \in (i - 1)..Len(s) : (\A k \in i..j : IsSpace(s[k])) /\ ~IsSpace(At(s, j + 1))

RECURSIVE FindAllWords(_, _)
\* re.findall(r"\w+", s) from position i on
FindAllWords(s, i) == IF i > Len(s) THEN <<>> ELSE IF IsWordCh(s[i]) THEN <<SubSeq(s, i, WordRunEnd(s, i))>> \o FindAllWords(s, WordRunEnd(s, i) + 1) ELSE FindAllWords(s, i + 1)

tokenize(text) == FindAllWords(str_lower(text), 1)

(***************************************************************************)
(* Entity extraction                                                       *)
(***************************************************************************)
QUESTION_WORDS == {<<"w","h","a","t">>, <<"w","h","e","n">>, <<"w","h","y">>, <<"w","h","e","r","e">>, <<"h","o","w">>, <<"w","h","o">>, <<"w","h","i","c","h">>, <<"c","a","n">>, <<"p","l","e","a","s","e">>, <<"l","o","o","k","i","n","g">>, <<"w","i","l","l">>, <<"s","h","o","u","l","d">>, <<"i","s">>, <<"a","r","e">>, <<"n","e","e","d">>, <<"t","h","a","n","k">>, <<"b","o","o","k">>, <<"c","h","e","c","k">>, <<"s","e","n","d">>, <<"f","i","n","d">>, <<"g","e","t">>, <<"a","r","r","a","n","g","e">>, <<"c","o","u","l","d">>, <<"w","o","u","l","d">>, <<"d","o">>, <<"d","o","e","s">>}

\* last position of a match of [A-Z][a-z]+ starting at i, 0 when it does not match
CapEnd(s, i) == IF IsUpper(At(s, i)) /\ IsLower(At(s, i + 1)) THEN LowerRunEnd(s, i + 1) ELSE 0

RECURSIVE ChainEnd(_, _)
\* last position of the greedy (?:\s[A-Z][a-z]+)* after a capitalised word ending at j
ChainEnd(s, j) == IF IsSpace(At(s, j + 1)) /\ CapEnd(s, j + 2) # 0 THEN ChainEnd(s, CapEnd(s, j + 2)) ELSE j

RECURSIVE FindFullNames(_, _)
\* re.findall(r"[A-Z][a-z]+(?:\s[A-Z][a-z]+)+", s) from position i on
FindFullNames(s, i) == IF i > Len(s) THEN <<>> ELSE IF CapEnd(s, i) # 0 /\ ChainEnd(s, CapEnd(s, i)) > CapEnd(s, i) THEN <<SubSeq(s, i, ChainEnd(s, CapEnd(s, i)))>> \o FindFullNames(s, ChainEnd(s, CapEnd(s, i)) + 1) ELSE FindFullNames(s, i + 1)

RECURSIVE FindCapWords(_, _)
\* re.findall(r"\b[A-Z][a-z]+\b", s) from position i on
FindCapWords(s, i) == IF i > Len(s) THEN <<>> ELSE IF WB(s, i) /\ CapEnd(s, i) # 0 /\ WB(s, CapEnd(s, i) + 1) THEN <<SubSeq(s, i, CapEnd(s, i))>> \o FindCapWords(s, CapEnd(s, i) + 1) ELSE FindCapWords(s, i + 1)

NotQuestionWord(n) == str_lower(n) \notin QUESTION_WORDS

extract_person_names(q) == IF SelectSeq(FindFullNames(q, 1), NotQuestionWord) # <<>> THEN SelectSeq(FindFullNames(q, 1), NotQuestionWord) ELSE SelectSeq(FindCapWords(q, 1), NotQuestionWord)

location_keywords == <<<<"l","o","n","d","o","n">>, <<"p","a","r","i","s">>, <<"t","o","k","y","o">>, <<"n","e","w"," ","y","o","r","k">>, <<"d","u","b","a","i">>, <<"s","i","n","g","a","p","o","r","e">>, <<"b","a","n","g","k","o","k">>, <<"a","s","p","e","n">>, <<"m","a","l","d","i","v","e","s">>, <<"b","a","l","i">>, <<"c","a","n","n","e","s">>, <<"m","o","n","a","c","o">>, <<"t","u","s","c","a","n","y">>, <<"s","a","n","t","o","r","i","n","i">>, <<"r","i","v","i","e","r","a">>, <<"m","i","l","a","n">>, <<"s","w","i","t","z","e","r","l","a","n","d">>, <<"k","y","o","t","o">>, <<"p","e","b","b","l","e"," ","b","e","a","c","h">>>>

extract_locations(q) == LET InQuery(loc) == Contains(str_lower(q), str_lower(loc)) IN SelectSeq(location_keywords, InQuery)

\* a variant of the classifier that tests "when" before "who"
extract_question_type_when_first(q) == LET qlow == str_lower(q) IN
    IF SearchWord(qlow, <<"w","h","e","n">>) THEN "WHEN"
    ELSE IF SearchWord(qlow, <<"w","h","o">>) THEN "WHO"
    ELSE IF SearchWord(qlow, <<"w","h","e","r","e">>) THEN "WHERE"
    ELSE IF SearchWord(qlow, <<"h","o","w"," ","m","a","n","y">>) THEN "HOW_MANY"
    ELSE IF SearchWord(qlow, <<"w","h","a","t"," ","a","r","e">>) THEN "WHAT_ARE"
    ELSE IF SearchWord(qlow, <<"w","h","i","c","h">>) THEN "WHICH"
    ELSE IF SearchWord(qlow, <<"w","h","y">>) THEN "WHY"
    ELSE "GENERIC"

extract_question_type(q) == LET qlow == str_lower(q) IN
    IF SearchWord(qlow, <<"w","h","o">>) THEN "WHO"
    ELSE IF SearchWord(qlow, <<"w","h","e","n">>) THEN "WHEN"
    ELSE IF SearchWord(qlow, <<"w","h","e","r","e">>) THEN "WHERE"
    ELSE IF SearchWord(qlow, <<"h","o","w"," ","m","a","n","y">>) THEN "HOW_MANY"
    ELSE IF SearchWord(qlow, <<"w","h","a","t"," ","a","r","e">>) THEN "WHAT_ARE"
    ELSE IF SearchWord(qlow, <<"w","h","i","c","h">>) THEN "WHICH"
    ELSE IF SearchWord(qlow, <<"w","h","y">>) THEN "WHY"
    ELSE "GENERIC"

\* the word list of extract_number_strict, in the dict's insertion order
strict_words == <<<<"o","n","e">>, <<"t","w","o">>, <<"t","h","r","e","e">>, <<"f","o","u","r">>, <<"f","i","v","e">>, <<"s","i","x">>, <<"s","e","v","e","n">>, <<"e","i","g","h","t">>, <<"n","i","n","e">>, <<"t","e","n">>>>

strict_values == <<<<"1">>, <<"2">>, <<"3">>, <<"4">>, <<"5">>, <<"6">>, <<"7">>, <<"8">>, <<"9">>, <<"1","0">>>>

\* start positions of the matches of \b(\d+)\b
DigitTokenStarts(text) == {i \in 1..Len(text) : IsDigit(text[i]) /\ WB(text, i) /\ WB(text, DigitRunEnd(text, i) + 1)}

\* Optional[str]: None or the first number of the text
extract_number_strict(text) == LET starts == DigitTokenStarts(text)
                                   hits == {k \in 1..Len(strict_words) : SearchWord(str_lower(text), strict_words[k])} IN
    IF starts # {} THEN Some(SubSeq(text, MinOf(starts), DigitRunEnd(text, MinOf(starts))))
    ELSE IF hits # {} THEN Some(strict_values[MinOf(hits)])
    ELSE None

(***************************************************************************)
(* Results of a Python call: a returned value or a raised exception        *)
(***************************************************************************)
Ok(v) == [exc |-> "", val |-> v]

Raise(e) == [exc |-> e, val |-> <<>>]

NOT_FOUND_ANSWER == <<"T","h","i","s"," ","t","o","p","i","c"," ","o","r"," ","a","n","s","w","e","r"," ","d","o","e","s"," ","n","o","t"," ","e","x","i","s","t"," ","i","n"," ","t","h","e"," ","c","o","n","v","e","r","s","a","t","i","o","n",".">>

(***************************************************************************)
(* Data fetching and indexing                                              *)
(***************************************************************************)
\* list.sort(key=timestamp): position k of the stable ascending sort
SortedItem(items, k) == items[CHOOSE i \in 1..Len(items) : Cardinality({j \in 1..Len(items) : items[j].timestamp < items[i].timestamp \/ (items[j].timestamp = items[i].timestamp /\ j < i)}) = k - 1]

\* The local file's items when it has any, else the pages of the API; sorted
\* by timestamp.  src.file = <<>> stands for a missing, unreadable or empty
\* all_messages.json; src.api is what the paginated fetch collects before the
\* first empty batch or request error (<<>> when the service is unreachable).
fetch_messages(src) == LET items == IF src.file # <<>> THEN src.file ELSE src.api IN
    [k \in 1..Len(items) |-> SortedItem(items, k)]

\* BM25Okapi(corpus) of rank_bm25: the average document length divides by the
\* corpus size and the average idf by the vocabulary size, so the constructor
\* raises ZeroDivisionError on a corpus with no document or with no token.
BM25Okapi(docs_tokens) == IF Len(docs_tokens) = 0 \/ (\A i \in 1..Len(docs_tokens) : docs_tokens[i] = <<>>) THEN Raise("ZeroDivisionError") ELSE Ok([corpus |-> docs_tokens])

DocTokens(messages) == [i \in 1..Len(messages) |-> tokenize(messages[i].user_name \o <<" ">> \o messages[i].message)]

\* (doc_tokens, bm25), or the exception of the BM25Okapi constructor
build_index(messages) == LET bm == BM25Okapi(DocTokens(messages)) IN
    IF bm.exc # "" THEN bm ELSE Ok([doc_tokens |-> DocTokens(messages), bm25 |-> bm.val])

\* a variant of the early return of ensure_index that never returns early
IndexNeverBuilt(bm25) == FALSE

\* ensure_index returns at once when the slot holds an index
IndexIsBuilt(bm25) == bm25 # None

(***************************************************************************)
(* Ranking                                                                 *)
(***************************************************************************)
TermFrequency(doc, t) == Cardinality({k \in 1..Len(doc) : doc[k] = t})

RECURSIVE SumTermFrequency(_, _, _)
SumTermFrequency(doc, q_tokens, k) == IF k > Len(q_tokens) THEN 0 ELSE TermFrequency(doc, q_tokens[k]) + SumTermFrequency(doc, q_tokens, k + 1)

\* bm25.get_scores(q_tokens): one score per document, aligned to the corpus.
\* The BM25 weight of rank_bm25 is a float; the model keeps what the pipeline
\* reads of it: a per-document number that is 0 for a document holding no
\* query term and grows with the term frequencies.
get_scores(bm25, q_tokens) == [i \in 1..Len(bm25.corpus) |-> SumTermFrequency(bm25.corpus[i], q_tokens, 1)]

\* i sorts before j in np.argsort(scores).  The default kind (quicksort) does
\* not fix the order of equal scores: the insertion sort used on short arrays
\* keeps equal scores in index order ("stable"), a vectorised kernel need not
\* ("unstable": the model takes the opposite order).
ArgsortBefore(scores, kind, i, j) == scores[i + 1] < scores[j + 1] \/ (scores[i + 1] = scores[j + 1] /\ IF kind = "stable" THEN i < j ELSE j < i)

\* np.argsort(scores): the 0-based indices in ascending order of score
argsort(scores, kind) == [k \in 1..Len(scores) |-> CHOOSE i \in 0..(Len(scores) - 1) : Cardinality({j \in 0..(Len(scores) - 1) : ArgsortBefore(scores, kind, j, i)}) = k - 1]

\* a variant of the selection that forgets the reversal [::-1]
NotReversed(s) == s

\* order[::-1]
Reversed(s) == [k \in 1..Len(s) |-> s[Len(s) + 1 - k]]

TOP_K == 20

\* [int(i) for i in np.argsort(scores)[::-1][:20]]
top_k_of(scores, kind) == LET order == Reversed(argsort(scores, kind)) IN SubSeq(order, 1, IF Len(order) < TOP_K THEN Len(order) ELSE TOP_K)

(***************************************************************************)
(* Retrieval and filtering                                                 *)
(***************************************************************************)
\* range(a, b)
PyRange(a, b) == [k \in 1..(IF b > a THEN b - a ELSE 0) |-> a + k - 1]

\* a variant of the window that is not clamped to the corpus length
WindowEndUnclamped(n, idx, w) == idx + w + 1

\* min(n, idx + w + 1), the exclusive upper end of the window
WindowEnd(n, idx, w) == IF n < idx + w + 1 THEN n ELSE idx + w + 1

\* get_context reads len(_CACHE["messages"]) at the time of the call
get_context(idx, w) == LET n == Len(CACHE.messages) IN PyRange(IF idx - w > 0 THEN idx - w ELSE 0, WindowEnd(n, idx, w))

RECURSIVE AppendUnseen(_, _, _)
\* the inner loop of STEP 2: append the indices of ctx not seen before
AppendUnseen(cand_idx, ctx, k) == IF k > Len(ctx) THEN cand_idx ELSE AppendUnseen(IF ctx[k] \in Range(cand_idx) THEN cand_idx ELSE Append(cand_idx, ctx[k]), ctx, k + 1)

RECURSIVE ExpandAll(_, _, _, _)
\* the whole loop of STEP 2 over top_k_indices[k..], with no write to the cache in between
ExpandAll(cand_idx, top_k_indices, k, w) == IF k > Len(top_k_indices) THEN cand_idx ELSE ExpandAll(AppendUnseen(cand_idx, get_context(top_k_indices[k], w), 1), top_k_indices, k + 1, w)

InRange(idxs, msgs) == \A k \in 1..Len(idxs) : idxs[k] < Len(msgs)

SpeakerMatches(msg, persons) == \E k \in 1..Len(persons) : Contains(str_lower(msg.user_name), str_lower(persons[k]))

MentionsLocation(msg, locations) == \E k \in 1..Len(locations) : Contains(str_lower(msg.message), str_lower(locations[k]))

\* `if matches: filtered = matches`
AdoptIfNonEmpty(matches, filtered) == IF matches # <<>> THEN matches ELSE filtered

\* the location filter applies to more than 5 candidates
ManyCandidates(filtered) == Len(filtered) > 5

\* a variant of the filter that adopts the person matches without the
\* `if person_matches:` test and returns them without the final fallback
filter_without_fallback(candidates, q, msgs) == LET persons == extract_person_names(q)
                                                     BySpeaker(i) == SpeakerMatches(msgs[i + 1], persons) IN
    Ok(IF persons # <<>> THEN SelectSeq(candidates, BySpeaker) ELSE candidates)

filter_candidates_by_entities(candidates, q, msgs) == LET persons == extract_person_names(q)
                                                           locations == extract_locations(q)
                                                           BySpeaker(i) == SpeakerMatches(msgs[i + 1], persons)
                                                           f1 == IF persons # <<>> THEN AdoptIfNonEmpty(SelectSeq(candidates, BySpeaker), candidates) ELSE candidates
                                                           ByLocation(i) == MentionsLocation(msgs[i + 1], locations)
                                                           f2 == IF locations # <<>> /\ ManyCandidates(f1) THEN AdoptIfNonEmpty(SelectSeq(f1, ByLocation), f1) ELSE f1 IN
    IF persons # <<>> /\ ~InRange(candidates, msgs) THEN Raise("IndexError")
    ELSE IF locations # <<>> /\ ManyCandidates(f1) /\ ~InRange(f1, msgs) THEN Raise("IndexError")
    ELSE Ok(IF f2 # <<>> THEN f2 ELSE candidates)

(***************************************************************************)
(* Question handlers                                                       *)
(***************************************************************************)
month_names == <<<<"j","a","n","u","a","r","y">>, <<"f","e","b","r","u","a","r","y">>, <<"m","a","r","c","h">>, <<"a","p","r","i","l">>, <<"m","a","y">>, <<"j","u","n","e">>, <<"j","u","l","y">>, <<"a","u","g","u","s","t">>, <<"s","e","p","t","e","m","b","e","r">>, <<"o","c","t","o","b","e","r">>, <<"n","o","v","e","m","b","e","r">>, <<"d","e","c","e","m","b","e","r">>>>

weekday_names == <<<<"m","o","n","d","a","y">>, <<"t","u","e","s","d","a","y">>, <<"w","e","d","n","e","s","d","a","y">>, <<"t","h","u","r","s","d","a","y">>, <<"f","r","i","d","a","y">>, <<"s","a","t","u","r","d","a","y">>, <<"s","u","n","d","a","y">>>>

\* (January|...|December)\s+\d{1,2}, ignoring case
MatchesMonthDay(low) == \E i \in 1..Len(low), m \in 1..Len(month_names) : StartsAt(low, month_names[m], i) /\ IsSpace(At(low, i + Len(month_names[m]))) /\ IsDigit(At(low, SpaceRunEnd(low, i + Len(month_names[m])) + 1))

\* \b(next|this|last)\s+\w+\b at position i
MatchesRelativeAt(low, w, i) == WB(low, i) /\ StartsAt(low, w, i) /\ IsSpace(At(low, i + Len(w))) /\ IsWordCh(At(low, SpaceRunEnd(low, i + Len(w)) + 1))

\* \b(today|tomorrow|tonight|next\s+\w+|this\s+\w+|last\s+\w+)\b, ignoring case
MatchesRelativeDay(low) == SearchWord(low, <<"t","o","d","a","y">>) \/ SearchWord(low, <<"t","o","m","o","r","r","o","w">>) \/ SearchWord(low, <<"t","o","n","i","g","h","t">>) \/ (\E i \in 1..Len(low), w \in {<<"n","e","x","t">>, <<"t","h","i","s">>, <<"l","a","s","t">>} : MatchesRelativeAt(low, w, i))

\* \b(Monday|...|Sunday)\b, ignoring case
MatchesWeekday(low) == \E d \in 1..Len(weekday_names) : SearchWord(low, weekday_names[d])

AllDigits(s, i, j) == j <= Len(s) /\ \A k \in i..j : IsDigit(s[k])

\* \b\d{1,2}/\d{1,2}(?:/\d{2,4})?\b
MatchesNumericDate(s) == \E i \in 1..Len(s), a \in 1..2, b \in 1..2 : WB(s, i) /\ AllDigits(s, i, i + a - 1) /\ At(s, i + a) = "/" /\ AllDigits(s, i + a + 1, i + a + b) /\ (WB(s, i + a + b + 1) \/ (\E c \in 2..4 : At(s, i + a + b + 1) = "/" /\ AllDigits(s, i + a + b + 2, i + a + b + 1 + c) /\ WB(s, i + a + b + 2 + c)))

\* some pattern of date_patterns is found in the text (re.IGNORECASE)
HasDate(text) == MatchesMonthDay(str_lower(text)) \/ MatchesRelativeDay(str_lower(text)) \/ MatchesWeekday(str_lower(text)) \/ MatchesNumericDate(text)

\* str.split(sep, 1)[1]: IndexError when sep does not occur
SplitAfter(text, sep) == IF Contains(text, sep) THEN Ok(SubSeq(text, MinOf({i \in 1..Len(text) : StartsAt(text, sep, i)}) + Len(sep), Len(text))) ELSE Raise("IndexError")

\* start positions of the matches of \b(?:to|in|at)\s+([A-Z][a-z]+(?:\s[A-Z][a-z]+)*)
LocPhraseStarts(text) == {i \in 1..Len(text) : WB(text, i) /\ (\E pr \in {<<"t","o">>, <<"i","n">>, <<"a","t">>} : StartsAt(text, pr, i)) /\ IsSpace(At(text, i + 2)) /\ CapEnd(text, SpaceRunEnd(text, i + 2) + 1) # 0}

\* match.group(1) of the leftmost match
LocPhrase(text) == LET g == SpaceRunEnd(text, MinOf(LocPhraseStarts(text)) + 2) + 1 IN SubSeq(text, g, ChainEnd(text, CapEnd(text, g)))

\* re.search(r"how many\s+(\w+)", qlow): None or the noun
how_many_noun(qlow) == LET starts == {i \in 1..Len(qlow) : StartsAt(qlow, <<"h","o","w"," ","m","a","n","y">>, i) /\ IsSpace(At(qlow, i + 8)) /\ IsWordCh(At(qlow, SpaceRunEnd(qlow, i + 8) + 1))} IN
    IF starts = {} THEN None ELSE LET g == SpaceRunEnd(qlow, MinOf(starts) + 8) + 1 IN Some(SubSeq(qlow, g, WordRunEnd(qlow, g)))

\* the test that makes a branch's scan stop at the message text msg
BranchHit(qtype, msg, q) == CASE qtype = "WHEN" -> HasDate(msg)
    [] qtype = "WHERE" -> LocPhraseStarts(msg) # {}
    [] qtype = "HOW_MANY" -> how_many_noun(str_lower(q)) # None /\ Contains(str_lower(msg), how_many_noun(str_lower(q))[1]) /\ extract_number_strict(msg) # None
    [] qtype = "WHICH" -> Contains(str_lower(msg), <<" ","a","t"," ">>)
    [] qtype = "WHAT_ARE" -> Contains(str_lower(msg), <<" ","a","r","e"," ">>)
    [] qtype = "WHY" -> Contains(str_lower(msg), <<"b","e","c","a","u","s","e">>)

\* what the branch returns (or raises) at the message it stops at
BranchResult(qtype, msg) == CASE qtype = "WHEN" -> Ok(msg)
    [] qtype = "WHERE" -> Ok(LocPhrase(msg))
    [] qtype = "HOW_MANY" -> Ok(extract_number_strict(msg)[1])
    [] qtype = "WHICH" -> SplitAfter(msg, <<" ","a","t"," ">>)
    [] qtype = "WHAT_ARE" -> SplitAfter(msg, <<" ","a","r","e"," ">>)
    [] qtype = "WHY" -> Ok(msg)

RECURSIVE ScanCandidates(_, _, _, _, _)
\* `for idx in cand_idx:` of a branch, from position k on: None when the scan
\* ends without a return, else the result; msgs[idx] raises IndexError when
\* idx is not an index of the list msgs the query holds
ScanCandidates(qtype, cand_idx, k, msgs, q) == IF k > Len(cand_idx) THEN None
    ELSE IF cand_idx[k] >= Len(msgs) THEN Some(Raise("IndexError"))
    ELSE IF BranchHit(qtype, msgs[cand_idx[k] + 1].message, q) THEN Some(BranchResult(qtype, msgs[cand_idx[k] + 1].message))
    ELSE ScanCandidates(qtype, cand_idx, k + 1, msgs, q)

\* the if / elif under `if has_date:` in the second scope of WHEN
ReturnsDated(msg, locations) == IF locations # <<>> /\ MentionsLocation(msg, locations) THEN TRUE ELSE IF locations = <<>> THEN TRUE ELSE FALSE

\* Priority 2 of WHEN: the first message of an extracted person that has a date and is returned
when_person_scope(q, msgs) == LET persons == extract_person_names(q)
                                  locations == extract_locations(q)
                                  hits == {i \in 1..Len(msgs) : SpeakerMatches(msgs[i], persons) /\ HasDate(msgs[i].message) /\ ReturnsDated(msgs[i], locations)} IN
    IF persons # <<>> /\ hits # {} THEN Ok(msgs[MinOf(hits)].message) ELSE Ok(NOT_FOUND_ANSWER)

\* STEP 4 of answer_question: the branch of the question type
dispatch(q, msgs, top_k_indices, cand_idx) == LET qtype == extract_question_type(q)
                                                  scan == ScanCandidates(qtype, cand_idx, 1, msgs, q) IN
    CASE qtype = "WHO" -> IF top_k_indices = <<>> THEN Ok(NOT_FOUND_ANSWER) ELSE IF top_k_indices[1] >= Len(msgs) THEN Raise("IndexError") ELSE Ok(msgs[top_k_indices[1] + 1].user_name)
    [] qtype = "WHEN" -> IF scan # None THEN scan[1] ELSE when_person_scope(q, msgs)
    [] qtype = "GENERIC" -> IF cand_idx # <<>> THEN (IF cand_idx[1] >= Len(msgs) THEN Raise("IndexError") ELSE Ok(msgs[cand_idx[1] + 1].message)) ELSE IF top_k_indices # <<>> THEN (IF top_k_indices[1] >= Len(msgs) THEN Raise("IndexError") ELSE Ok(msgs[top_k_indices[1] + 1].message)) ELSE Ok(NOT_FOUND_ANSWER)
    [] OTHER -> IF scan # None THEN scan[1] ELSE Ok(NOT_FOUND_ANSWER)

\* answer_question from `if not cand_idx` on (STEP 3 and STEP 4)
answer_from_candidates(q, msgs, top_k_indices, cand_idx) == IF cand_idx = <<>> THEN Ok(NOT_FOUND_ANSWER)
    ELSE LET f == filter_candidates_by_entities(cand_idx, q, msgs) IN IF f.exc # "" THEN f ELSE dispatch(q, msgs, top_k_indices, f.val)

\* answer_question(q) run alone on a slot that holds an index: ensure_index
\* returns at once and nothing writes the cache between the reads
answer_question(q) == IF CACHE.bm25 = None \/ tokenize(q) = <<>> THEN Ok(NOT_FOUND_ANSWER)
    ELSE LET top_k_indices == top_k_of(get_scores(CACHE.bm25[1], tokenize(q)), argsortKind) IN
         answer_from_candidates(q, CACHE.messages, top_k_indices, ExpandAll(<<>>, top_k_indices, 1, 2))

(***************************************************************************)
(* The environment: what corpus acquisition finds, and the questions asked *)
(***************************************************************************)
Item(u, m, t) == [user_name |-> u, message |-> m, timestamp |-> t]

\* nothing to load: no local file and an unreachable or empty service
SrcEmpty == [file |-> <<>>, api |-> <<>>]

\* a local file whose items are not in timestamp order
SrcVenue == [file |-> <<Item(<<"B","o","b">>, <<"b","e","c","a","u","s","e"," ","t","h","e"," ","v","e","n","u","e"," ","c","h","a","n","g","e","d">>, 2), Item(<<"A","l","i","c","e">>, <<"M","e","e","t","i","n","g"," ","i","n"," ","P","a","r","i","s"," ","o","n"," ","M","o","n","d","a","y">>, 1)>>, api |-> <<>>]

\* served by the API; a message with an upper-case " AT "
SrcDinner == [file |-> <<>>, api |-> <<Item(<<"B","o","b">>, <<"D","i","n","n","e","r"," ","A","T"," ","N","o","b","u">>, 1), Item(<<"A","l","i","c","e">>, <<"T","h","e"," ","c","a","r","s"," ","a","r","e"," ","r","e","d">>, 2), Item(<<"B","o","b">>, <<"I"," ","h","a","v","e"," ","3"," ","c","a","r","s">>, 3)>>]

\* six messages of one member: one names a location, another a date
SrcTrip == [file |-> <<>>, api |-> <<Item(<<"A","l","i","c","e">>, <<"t","r","i","p"," ","t","o"," ","P","a","r","i","s">>, 1), Item(<<"A","l","i","c","e">>, <<"s","e","e"," ","y","o","u"," ","M","o","n","d","a","y">>, 2), Item(<<"A","l","i","c","e">>, <<"o","k">>, 3), Item(<<"A","l","i","c","e">>, <<"f","i","n","e">>, 4), Item(<<"A","l","i","c","e">>, <<"y","e","s">>, 5), Item(<<"A","l","i","c","e">>, <<"n","o">>, 6)>>]

\* more messages than the ranking keeps (22 > TOP_K)
SrcLong == [file |-> <<>>, api |-> <<Item(<<"B","o","b">>, <<"c","a","r","s">>, 1), Item(<<"B","o","b">>, <<"n","o">>, 2), Item(<<"B","o","b">>, <<"c","a","r","s"," ","c","a","r","s">>, 3), Item(<<"B","o","b">>, <<"o","k">>, 4), Item(<<"B","o","b">>, <<"n","o"," ","c","a","r","s">>, 5), Item(<<"B","o","b">>, <<"y","e","s">>, 6), Item(<<"B","o","b">>, <<"f","i","n","e">>, 7), Item(<<"B","o","b">>, <<"c","a","r","s">>, 8), Item(<<"B","o","b">>, <<"o","k">>, 9), Item(<<"B","o","b">>, <<"n","o">>, 10), Item(<<"B","o","b">>, <<"y","e","s">>, 11), Item(<<"B","o","b">>, <<"c","a","r","s"," ","c","a","r","s"," ","c","a","r","s">>, 12), Item(<<"B","o","b">>, <<"f","i","n","e">>, 13), Item(<<"B","o","b">>, <<"o","k">>, 14), Item(<<"B","o","b">>, <<"n","o">>, 15), Item(<<"B","o","b">>, <<"y","e","s">>, 16), Item(<<"B","o","b">>, <<"c","a","r","s">>, 17), Item(<<"B","o","b">>, <<"f","i","n","e">>, 18), Item(<<"B","o","b">>, <<"o","k">>, 19), Item(<<"B","o","b">>, <<"n","o">>, 20), Item(<<"B","o","b">>, <<"y","e","s">>, 21), Item(<<"B","o","b">>, <<"c","a","r","s">>, 22)>>]

\* what an acquisition can find while requests are served
Sources == {SrcEmpty, SrcVenue, SrcDinner}

\* ensure_index up to its first write, per source: the fetched messages and
\* the index built over them, or the exception of the build
Acquired == Tabulated([src \in Sources \cup {SrcTrip, SrcLong} |-> [messages |-> fetch_messages(src), built |-> build_index(fetch_messages(src))]])

Q_WHICH == <<"W","h","i","c","h"," ","r","e","s","t","a","u","r","a","n","t","?">>

Q_WHY == <<"W","h","y"," ","d","i","d"," ","t","h","e"," ","v","e","n","u","e"," ","c","h","a","n","g","e","?">>

Q_BLANK == <<" ">>

\* the questions the /ask requests carry
Questions == {Q_WHICH, Q_WHY, Q_BLANK}

\* the message lists a request can read from the cache
HeldMessages == {<<>>} \cup {Acquired[src].messages : src \in Sources}

\* the lists of corpus indices a request can hold as top_k_indices or cand_idx
HeldIndices == LET n == MaxOf({Len(m) : m \in HeldMessages}) IN InjectiveSeqs(0..(n - 1), n)

\* answer_from_candidates, evaluated once for each argument list a request can pass
Answers == Tabulated([q \in Questions, msgs \in HeldMessages, top_k_indices \in HeldIndices, cand_idx \in HeldIndices |-> answer_from_candidates(q, msgs, top_k_indices, cand_idx)])

(***************************************************************************)
(* The requests.  FastAPI runs the handlers ask and refresh, plain `def`   *)
(* functions, on worker threads; reads and writes of a _CACHE entry are    *)
(* the atomic steps, and the computation between two of them is local.     *)
(* Two worker threads serve requests, each one request after the other.    *)
(***************************************************************************)
Workers == {"w1", "w2"}

\* the locals of a worker between two requests
Blank == [messages |-> <<>>, doc_tokens |-> <<>>, new_bm25 |-> None, msgs |-> <<>>, bm25 |-> None, top_k_indices |-> <<>>, k |-> 0, n |-> 0, cand_idx |-> <<>>]

\* clean: nothing has written the cache since the request arrived
\* on_built: ensure_index found an index in the slot; fetched: the number of
\* messages its fetch_messages returned, -1 when it fetched nothing
Idle == [kind |-> "none", pc |-> "idle", q |-> <<>>, exc |-> "", answer |-> <<>>, clean |-> FALSE, on_built |-> FALSE, fetched |-> -1, local |-> Blank]

\* the empty module-level _CACHE
EmptyCache == [messages |-> <<>>, doc_tokens |-> <<>>, bm25 |-> None]

Init == /\ CACHE = EmptyCache
        /\ started = FALSE
        /\ argsortKind \in {"stable", "unstable"}
        /\ req = [r \in Workers |-> Idle]
        /\ probe = [fn |-> "none"]

\* startup_event: ensure_index() before any request is served, its exception printed and dropped
Startup == /\ ~started
           /\ started' = TRUE
           /\ \E src \in Sources : LET built == Acquired[src].built IN
                CACHE' = IF built.exc # "" THEN CACHE ELSE [messages |-> Acquired[src].messages, doc_tokens |-> built.val.doc_tokens, bm25 |-> Some(built.val.bm25)]
           /\ UNCHANGED <<argsortKind, req, probe>>

\* GET /ask?q=... reaches ask, which calls answer_question, which calls ensure_index
ArriveAsk(r) == /\ started
                /\ req[r].pc \in {"idle", "done"}
                /\ \E q \in Questions : req' = [req EXCEPT ![r] = [Idle EXCEPT !.kind = "ask", !.pc = "ensure", !.q = q, !.clean = TRUE]]
                /\ UNCHANGED <<CACHE, started, argsortKind, probe>>

\* GET /refresh reaches refresh
ArriveRefresh(r) == /\ started
                    /\ req[r].pc \in {"idle", "done"}
                    /\ req' = [req EXCEPT ![r] = [Idle EXCEPT !.kind = "refresh", !.pc = "clear_messages"]]
                    /\ UNCHANGED <<CACHE, started, argsortKind, probe>>

\* worker r moves to program point pc while it writes the cache
AfterWrite(r, pc) == [p \in Workers |-> IF p = r THEN [req[p] EXCEPT !.pc = pc, !.clean = FALSE] ELSE [req[p] EXCEPT !.clean = FALSE]]

\* the request returns: its locals are dropped; what ask returned is kept
\* until the worker takes its next request, the response of refresh is not
Returned(rq, exc, answer) == IF rq.kind = "ask" THEN [rq EXCEPT !.pc = "done", !.exc = exc, !.answer = answer, !.local = Blank] ELSE Idle

\* refresh: _CACHE["messages"] = []
ClearMessages(r) == /\ req[r].pc = "clear_messages"
                    /\ CACHE' = [CACHE EXCEPT !.messages = <<>>]
                    /\ req' = AfterWrite(r, "clear_doc_tokens")
                    /\ UNCHANGED <<started, argsortKind, probe>>

\* refresh: _CACHE["doc_tokens"] = []
ClearDocTokens(r) == /\ req[r].pc = "clear_doc_tokens"
                     /\ CACHE' = [CACHE EXCEPT !.doc_tokens = <<>>]
                     /\ req' = AfterWrite(r, "clear_bm25")
                     /\ UNCHANGED <<started, argsortKind, probe>>

\* refresh: _CACHE["bm25"] = None, then ensure_index()
ClearBm25(r) == /\ req[r].pc = "clear_bm25"
                /\ CACHE' = [CACHE EXCEPT !.bm25 = None]
                /\ req' = AfterWrite(r, "ensure")
                /\ UNCHANGED <<started, argsortKind, probe>>

\* ensure_index: `if _CACHE["bm25"] is not None: return`
EnsureCheck(r) == /\ req[r].pc = "ensure"
                  /\ req' = [req EXCEPT ![r] = IF IndexIsBuilt(CACHE.bm25) THEN (IF req[r].kind = "ask" THEN [req[r] EXCEPT !.pc = "read_messages", !.on_built = CACHE.bm25 # None] ELSE Returned([req[r] EXCEPT !.on_built = CACHE.bm25 # None], "", <<>>)) ELSE [req[r] EXCEPT !.pc = "build", !.on_built = (req[r].kind = "ask" /\ CACHE.bm25 # None)]]
                  /\ UNCHANGED <<CACHE, started, argsortKind, probe>>

\* ensure_index: messages = fetch_messages(); doc_tokens, bm25 = build_index(messages)
FetchAndBuild(r) == /\ req[r].pc = "build"
                    /\ \E src \in Sources : LET built == Acquired[src].built IN
                         req' = [req EXCEPT ![r] = IF built.exc # "" THEN Returned([req[r] EXCEPT !.fetched = Len(Acquired[src].messages)], built.exc, <<>>) ELSE [req[r] EXCEPT !.pc = "set_messages", !.fetched = (IF req[r].kind = "ask" THEN Len(Acquired[src].messages) ELSE -1), !.local.messages = Acquired[src].messages, !.local.doc_tokens = built.val.doc_tokens, !.local.new_bm25 = Some(built.val.bm25)]]
                    /\ UNCHANGED <<CACHE, started, argsortKind, probe>>

\* ensure_index: _CACHE["messages"] = messages
SetMessages(r) == /\ req[r].pc = "set_messages"
                  /\ CACHE' = [CACHE EXCEPT !.messages = req[r].local.messages]
                  /\ req' = AfterWrite(r, "set_doc_tokens")
                  /\ UNCHANGED <<started, argsortKind, probe>>

\* ensure_index: _CACHE["doc_tokens"] = doc_tokens
SetDocTokens(r) == /\ req[r].pc = "set_doc_tokens"
                   /\ CACHE' = [CACHE EXCEPT !.doc_tokens = req[r].local.doc_tokens]
                   /\ req' = AfterWrite(r, "set_bm25")
                   /\ UNCHANGED <<started, argsortKind, probe>>

\* ensure_index: _CACHE["bm25"] = bm25, and the return to the caller
SetBm25(r) == /\ req[r].pc = "set_bm25"
              /\ CACHE' = [CACHE EXCEPT !.bm25 = req[r].local.new_bm25]
              /\ req' = [AfterWrite(r, "read_messages") EXCEPT ![r] = IF @.kind = "ask" THEN [@ EXCEPT !.local = Blank] ELSE Returned(@, "", <<>>)]
              /\ UNCHANGED <<started, argsortKind, probe>>

\* answer_question: msgs = _CACHE["messages"]
ReadMessages(r) == /\ req[r].pc = "read_messages"
                   /\ req' = [req EXCEPT ![r].pc = "read_bm25", ![r].local.msgs = CACHE.messages]
                   /\ UNCHANGED <<CACHE, started, argsortKind, probe>>

\* answer_question: bm25 = _CACHE["bm25"], the two early returns, and STEP 1
ReadBm25AndRank(r) == /\ req[r].pc = "read_bm25"
                      /\ req' = [req EXCEPT ![r] = IF CACHE.bm25 = None \/ tokenize(req[r].q) = <<>> THEN Returned(req[r], "", NOT_FOUND_ANSWER) ELSE [req[r] EXCEPT !.pc = "context", !.local.bm25 = CACHE.bm25, !.local.top_k_indices = top_k_of(get_scores(CACHE.bm25[1], tokenize(req[r].q)), argsortKind), !.local.k = 1]]
                      /\ UNCHANGED <<CACHE, started, argsortKind, probe>>

\* STEP 2, one turn of `for idx in top_k_indices`: get_context reads the cache again
ContextStep(r) == /\ req[r].pc = "context"
                  /\ req[r].local.k <= Len(req[r].local.top_k_indices)
                  /\ req' = [req EXCEPT ![r].local.n = Len(CACHE.messages), ![r].local.cand_idx = AppendUnseen(@, get_context(req[r].local.top_k_indices[req[r].local.k], 2), 1), ![r].local.k = @ + 1]
                  /\ UNCHANGED <<CACHE, started, argsortKind, probe>>

\* the rest of answer_question, and ask's `return {"answer": ans}` or `except Exception`
Handle(r) == /\ req[r].pc = "context"
             /\ req[r].local.k > Len(req[r].local.top_k_indices)
             /\ LET res == Answers[req[r].q, req[r].local.msgs, req[r].local.top_k_indices, req[r].local.cand_idx] IN
                  req' = [req EXCEPT ![r] = Returned(req[r], res.exc, res.val)]
             /\ UNCHANGED <<CACHE, started, argsortKind, probe>>

Next == \/ Startup
        \/ \E r \in Workers : ArriveAsk(r)
        \/ \E r \in Workers : ArriveRefresh(r)
        \/ \E r \in Workers : ClearMessages(r)
        \/ \E r \in Workers : ClearDocTokens(r)
        \/ \E r \in Workers : ClearBm25(r)
        \/ \E r \in Workers : EnsureCheck(r)
        \/ \E r \in Workers : FetchAndBuild(r)
        \/ \E r \in Workers : SetMessages(r)
        \/ \E r \in Workers : SetDocTokens(r)
        \/ \E r \in Workers : SetBm25(r)
        \/ \E r \in Workers : ReadMessages(r)
        \/ \E r \in Workers : ReadBm25AndRank(r)
        \/ \E r \in Workers : ContextStep(r)
        \/ \E r \in Workers : Handle(r)

Spec == Init /\ [][Next]_vars

(***************************************************************************)
(* The functions of the pipeline applied to enumerated inputs, on a slot   *)
(* that startup has filled: one call per behaviour, recorded in probe.     *)
(***************************************************************************)
Q_WHEN == <<"W","h","e","n"," ","i","s"," ","A","l","i","c","e"," ","i","n"," ","P","a","r","i","s","?">>

Q_WHO == <<"W","h","o"," ","m","e","n","t","i","o","n","e","d"," ","P","a","r","i","s","?">>

Q_WHERE == <<"W","h","e","r","e"," ","i","s"," ","A","l","i","c","e"," ","g","o","i","n","g","?">>

Q_MEETING == <<"W","h","e","n"," ","i","s"," ","t","h","e"," ","m","e","e","t","i","n","g","?">>

Q_HOW_MANY == <<"H","o","w"," ","m","a","n","y"," ","c","a","r","s","?">>

Q_WHAT_ARE == <<"W","h","a","t"," ","a","r","e"," ","t","h","e"," ","c","a","r","s","?">>

Q_CAROL == <<"W","h","e","n"," ","i","s"," ","C","a","r","o","l"," ","i","n"," ","T","o","k","y","o","?">>

Q_CARS == <<"c","a","r","s">>

ProbeQuestions == Questions \cup {Q_WHEN, Q_WHO, Q_WHERE, Q_MEETING, Q_HOW_MANY, Q_WHAT_ARE, Q_CAROL, Q_CARS}

\* the words a classified question is made of; "" puts two separators in a row
ClassifierWords == {<<"W","h","o">>, <<"w","h","e","n">>, <<"w","h","e","r","e">>, <<"h","o","w">>, <<"m","a","n","y">>, <<"w","h","a","t">>, <<"a","r","e">>, <<"w","h","i","c","h">>, <<"w","h","y">>, <<"w","h","o","s","e">>, <<"t","r","i","p">>, <<>>}

MaxWords == 3

MaxW == 3

MaxTop == 2

\* the filter is applied to the corpora of at most this many messages
MaxCandidates == 6

RECURSIVE JoinWords(_, _)
\* " ".join(words[k..])
JoinWords(words, k) == IF k > Len(words) THEN <<>> ELSE IF k = Len(words) THEN words[k] ELSE words[k] \o <<" ">> \o JoinWords(words, k + 1)

WordLists == UNION {[1..k -> ClassifierWords] : k \in 0..MaxWords}

BuiltCache(src) == [messages |-> Acquired[src].messages, doc_tokens |-> Acquired[src].built.val.doc_tokens, bm25 |-> Some(Acquired[src].built.val.bm25)]

InitFn == /\ CACHE \in {BuiltCache(src) : src \in {SrcVenue, SrcDinner, SrcTrip, SrcLong}}
          /\ started = TRUE
          /\ argsortKind \in {"stable", "unstable"}
          /\ req = [r \in Workers |-> Idle]
          /\ probe = [fn |-> "none"]

CorpusIndices == 0..(Len(CACHE.messages) - 1)

ProbeClassify == /\ probe.fn = "none"
                 /\ \E words \in WordLists : probe' = [fn |-> "extract_question_type", words |-> words, q |-> JoinWords(words, 1), out |-> extract_question_type(JoinWords(words, 1))]
                 /\ UNCHANGED <<CACHE, started, argsortKind, req>>

ProbeFilter == /\ probe.fn = "none"
               /\ Len(CACHE.messages) <= MaxCandidates
               /\ \E q \in ProbeQuestions, candidates \in InjectiveSeqs(CorpusIndices, Len(CACHE.messages)) : probe' = [fn |-> "filter_candidates_by_entities", q |-> q, candidates |-> candidates, out |-> filter_candidates_by_entities(candidates, q, CACHE.messages)]
               /\ UNCHANGED <<CACHE, started, argsortKind, req>>

ProbeExpand == /\ probe.fn = "none"
               /\ \E top_ids \in InjectiveSeqs(CorpusIndices, MaxTop), w \in 0..MaxW : probe' = [fn |-> "get_context", top_ids |-> top_ids, w |-> w, out |-> ExpandAll(<<>>, top_ids, 1, w)]
               /\ UNCHANGED <<CACHE, started, argsortKind, req>>

ProbeTopK == /\ probe.fn = "none"
             /\ \E q \in ProbeQuestions : probe' = [fn |-> "top_k", q |-> q, scores |-> get_scores(CACHE.bm25[1], tokenize(q)), out |-> top_k_of(get_scores(CACHE.bm25[1], tokenize(q)), argsortKind)]
             /\ UNCHANGED <<CACHE, started, argsortKind, req>>

ProbeAnswer == /\ probe.fn = "none"
               /\ \E q \in ProbeQuestions : probe' = [fn |-> "answer_question", q |-> q, out |-> answer_question(q)]
               /\ UNCHANGED <<CACHE, started, argsortKind, req>>

NextFn == ProbeClassify \/ ProbeFilter \/ ProbeExpand \/ ProbeTopK \/ ProbeAnswer

SpecFn == InitFn /\ [][NextFn]_vars

(***************************************************************************)
(* The claims                                                              *)
(***************************************************************************)
AskAt(r, pc) == req[r].kind = "ask" /\ req[r].pc = pc

\* C1: a query that runs while the cache is rewritten works with a messages
\* list and an index of the same build: the index it ranks with was built
\* over the list it holds, and the length get_context reads is that list's.
C1_QueryUsesOneBuild == \A r \in Workers : AskAt(r, "context") => (req[r].local.bm25[1].corpus = DocTokens(req[r].local.msgs) /\ (req[r].local.k > 1 => req[r].local.n = Len(req[r].local.msgs)))

\* C2, for a slot that holds an index and is not rewritten during the call:
\* answer_question raises nothing and returns the NOT_FOUND sentinel or a
\* non-empty answer.
C2_AnswerIsTotal == \A r \in Workers : (AskAt(r, "done") /\ req[r].clean /\ CACHE.bm25 # None) => (req[r].exc = "" /\ (req[r].answer = NOT_FOUND_ANSWER \/ req[r].answer # <<>>))

\* C3: a call of answer_question whose ensure_index fetched an empty corpus
\* returns the NOT_FOUND sentinel and raises nothing.
C3_EmptyCorpusNotFound == \A r \in Workers : (AskAt(r, "done") /\ req[r].fetched = 0) => (req[r].exc = "" /\ req[r].answer = NOT_FOUND_ANSWER)

\* worker r takes a step of its request
Stepped(r) == req'[r].pc # req[r].pc \/ req'[r].local # req[r].local

\* two calls with the same question, between which nothing wrote the cache, returned the same
SameAnswers == \A a \in Workers, b \in Workers : (AskAt(a, "done") /\ AskAt(b, "done") /\ req[a].q = req[b].q /\ req[a].clean /\ req[b].clean) => (req[a].exc = req[b].exc /\ req[a].answer = req[b].answer)

\* C4: no step of an answer_question call that found the slot built changes
\* the cached triple, and two calls with the same question and no write to
\* the cache in between return identical output.
C4_QueryLeavesIndex == [][(\A r \in Workers : (req[r].kind = "ask" /\ req[r].on_built /\ Stepped(r)) => CACHE' = CACHE) /\ SameAnswers']_vars

C4_Witness == AskAt("w1", "done") /\ AskAt("w2", "done") /\ req["w1"].on_built /\ req["w2"].on_built /\ req["w1"].clean /\ req["w2"].clean /\ req["w1"].q = Q_WHY /\ req["w2"].q = Q_WHY /\ req["w1"].answer = <<"b","e","c","a","u","s","e"," ","t","h","e"," ","v","e","n","u","e"," ","c","h","a","n","g","e","d">>

\* C5: on a non-empty candidate list the filter raises nothing, returns a
\* non-empty list, and what it returns is a subsequence of its input.
C5_FilterKeepsCandidates == (probe.fn = "filter_candidates_by_entities" /\ probe.candidates # <<>>) => (probe.out.exc = "" /\ probe.out.val # <<>> /\ IsSubsequence(probe.out.val, probe.candidates))

\* six candidates in an order that is not the corpus order, cut down by the
\* person filter and then by the location filter
C5_Witness == probe.fn = "filter_candidates_by_entities" /\ probe.q = Q_WHEN /\ probe.candidates = <<5, 4, 3, 2, 1, 0>> /\ probe.out.val = <<0>>

\* the clamped window [idx - w, idx + w] of a corpus of n messages
WindowSet(idx, w, n) == {j \in 0..(n - 1) : idx - w <= j /\ j <= idx + w}

HasPhrase(words, phrase) == \E i \in 1..(Len(words) - Len(phrase) + 1) : \A k \in 1..Len(phrase) : str_lower(words[i + k - 1]) = phrase[k]

\* the rules of the classifier in priority order
TypeRules == <<[type |-> "WHO", phrase |-> <<<<"w","h","o">>>>], [type |-> "WHEN", phrase |-> <<<<"w","h","e","n">>>>], [type |-> "WHERE", phrase |-> <<<<"w","h","e","r","e">>>>], [type |-> "HOW_MANY", phrase |-> <<<<"h","o","w">>, <<"m","a","n","y">>>>], [type |-> "WHAT_ARE", phrase |-> <<<<"w","h","a","t">>, <<"a","r","e">>>>], [type |-> "WHICH", phrase |-> <<<<"w","h","i","c","h">>>>], [type |-> "WHY", phrase |-> <<<<"w","h","y">>>>]>>

\* the type of the first rule whose phrase occurs in the words, GENERIC when none does
FirstRule(words) == LET hits == {k \in 1..Len(TypeRules) : HasPhrase(words, TypeRules[k].phrase)} IN IF hits = {} THEN "GENERIC" ELSE TypeRules[MinOf(hits)].type

\* C7: the classifier returns the type of the first rule, in the order who,
\* when, where, how many, what are, which, why, whose phrase occurs as whole
\* words in the question, and GENERIC when none occurs.
C7_FirstRuleWins == probe.fn = "extract_question_type" => probe.out = FirstRule(probe.words)

\* a question with "when" before "who"
C7_Witness == probe.fn = "extract_question_type" /\ probe.words = <<<<"w","h","e","n">>, <<"W","h","o">>>> /\ probe.out = "WHO"

C9_DatedMessageOfPerson == (probe.fn = "answer_question" /\ extract_question_type(probe.q) = "WHEN" /\ extract_person_names(probe.q) # <<>> /\ probe.out = Ok(NOT_FOUND_ANSWER)) => ~(\E i \in 1..Len(CACHE.messages) : SpeakerMatches(CACHE.messages[i], extract_person_names(probe.q)) /\ HasDate(CACHE.messages[i].message))

\* C10: with no refresh in progress, at most one query holds a freshly
\* fetched and built triple to publish.
C10_BuiltOnce == (\A r \in Workers : req[r].kind # "refresh") => Cardinality({r \in Workers : req[r].kind = "ask" /\ req[r].pc \in {"set_messages", "set_doc_tokens", "set_bm25"}}) <= 1

=============================================================================
